---- MODULE Spec2Model ----
(***************************************************************************)
(* Model of charmhelpers/contrib/openstack/ha/utils.py: the builders of    *)
(* the hacluster relation payload (generate_ha_relation_data,              *)
(* update_hacluster_vip, update_hacluster_dns_ha) and expect_ha.           *)
(*                                                                         *)
(* Representation of Python values:                                        *)
(*  - a dict is a function from its keys; a list is a sequence;            *)
(*  - a text made of words is the sequence of its words, the blank        *)
(*    between two words being the token " " (JoinSpace puts it in, Split   *)
(*    takes it out); a key="value" word is the token KV(key, value);       *)
(*  - a release identifier is the sequence of its character codes, since   *)
(*    the code compares it character by character;                         *)
(*  - None is the token "None", which is also how str.format prints it.    *)
(***************************************************************************)
EXTENDS Integers, Sequences, FiniteSets, TLC

VARIABLES
    service,          \* argument of generate_ha_relation_data
    haproxy_enabled,  \* argument of generate_ha_relation_data
    extra_settings,   \* the caller's extra_settings object (its current contents)
    config,           \* charm configuration, as config(key) answers
    ifaces,           \* get_iface_for_address, per VIP
    netmasks,         \* get_netmask_for_address, per VIP
    lsb_release,      \* lsb_release()['DISTRIB_RELEASE']
    calls,            \* number of calls of generate_ha_relation_data so far
    result,           \* outcome of the last call: returned mapping or exception
    first_result,     \* outcome of the first call
    relation_data,    \* _relation_data of the last call when it ended
    loop_trace,       \* _relation_data after each iteration of the builder's loop
    config_reads,     \* settings update_hacluster_dns_ha read in the last call
    status,           \* last status_set(state, message)
    extra_before,     \* contents of extra_settings when the last call began
    expect_result     \* value returned by the last expect_ha()

vars == <<service, haproxy_enabled, extra_settings, config, ifaces, netmasks,
          lsb_release, calls, result, first_result, relation_data, loop_trace,
          config_reads, status, extra_before, expect_result>>

----------------------------------------------------------------------------
(* Bounds of the model *)

MaxVips == 3

MaxCalls == 2

MaxUnits == 2

----------------------------------------------------------------------------
(* Python values *)

None == "None"

EmptyDict == [k \in {} |-> None]

\* truth value of a dict, list or text: non-empty
Truthy(v) == DOMAIN v # {}

\* d.update(e): e's entries win
Update(d, e) == e @@ d

\* d[k] = v
SetItem(d, k, v) == (k :> v) @@ d

\* d[k][k2] = v
SetItem2(d, k, k2, v) == SetItem(d, k, SetItem(d[k], k2, v))

InSeq(x, s) == \E i \in 1..Len(s) : s[i] = x

\* the word key="value"
KV(key, value) == key \o "=\"" \o value \o "\""

\* ' '.join(words)
RECURSIVE JoinSpace(_)
JoinSpace(words) ==
    IF Len(words) <= 1 THEN words
    ELSE <<Head(words), " ">> \o JoinSpace(Tail(words))

\* text.split()
Split(text) == SelectSeq(text, LAMBDA w : w # " ")

----------------------------------------------------------------------------
(* Collaborators *)

Services == {"nova", "glance"}

VIPs == {"10.0.0.1", "10.0.0.2", "10.0.0.3", "2001:db8::1"}

Ifaces == {"eth0", "eth1"}

Netmasks == {"255.255.255.0", "64", "24"}

is_ipv6(vip) == vip \in {"2001:db8::1"}

get_iface_for_address(vip) == ifaces[vip]

get_netmask_for_address(vip) == netmasks[vip]

get_hacluster_config == [vip |-> config["vip"]]

\* hashlib.sha1(vip.encode('UTF-8')).hexdigest()[:7]
Sha1Hex7(vip) ==
    CASE vip = "10.0.0.1" -> "ed1665c"
      [] vip = "10.0.0.2" -> "5ab187e"
      [] vip = "10.0.0.3" -> "d854e20"
      [] vip = "2001:db8::1" -> "1eec140"

resolve_address(endpoint_type) ==
    CASE endpoint_type = "admin" -> "10.10.0.1"
      [] endpoint_type = "int" -> "10.20.0.1"
      [] endpoint_type = "public" -> "10.30.0.1"
      [] endpoint_type = "access" -> "10.40.0.1"

----------------------------------------------------------------------------
(* Module constants *)

VIP_GROUP_NAME(s) == "grp_" \o s \o "_vips"

DNSHA_GROUP_NAME(s) == "grp_" \o s \o "_hostnames"

\* Every key of a dict of the payload, in code-point order: the order in
\* which json.dumps(sort_keys=True) writes them.
KeyOrder == <<
    "cl_glance_haproxy", "cl_nova_haproxy",
    "grp_glance_hostnames", "grp_glance_vips", "grp_nova_extra",
    "grp_nova_hostnames", "grp_nova_vips",
    "res_glance_1eec140_vip", "res_glance_5ab187e_vip",
    "res_glance_access_hostname", "res_glance_admin_hostname",
    "res_glance_d854e20_vip", "res_glance_ed1665c_vip", "res_glance_haproxy",
    "res_glance_int_hostname", "res_glance_public_hostname",
    "res_nova_1eec140_vip", "res_nova_5ab187e_vip",
    "res_nova_access_hostname", "res_nova_admin_hostname",
    "res_nova_consoleauth", "res_nova_d854e20_vip", "res_nova_ed1665c_vip",
    "res_nova_haproxy",
    "res_nova_int_hostname", "res_nova_public_hostname",
    "vip_consoleauth" >>

\* json.dumps(v, **JSON_ENCODE_OPTIONS): a list is written in its own order,
\* a dict as its items in the order of their keys.
JsonDumps(k, v) ==
    IF k = "delete_resources"
    THEN [json |-> "array", items |-> v]
    ELSE LET keys == SelectSeq(KeyOrder, LAMBDA x : x \in DOMAIN v)
         IN [json |-> "object",
             items |-> [i \in 1..Len(keys) |-> <<keys[i], v[keys[i]]>>]]

----------------------------------------------------------------------------
(* get_vip_settings and update_hacluster_vip *)

\* get_vip_settings with the fallback flagged only when both lookups fail
get_vip_settings_BothAbsent(vip) ==
    LET iface == get_iface_for_address(vip)
        netmask == get_netmask_for_address(vip)
    IN [iface |-> IF iface = None THEN config["vip_iface"] ELSE iface,
        netmask |-> IF netmask = None THEN config["vip_cidr"] ELSE netmask,
        fallback |-> (iface = None) /\ (netmask = None)]

get_vip_settings(vip) ==
    LET iface == get_iface_for_address(vip)
        netmask == get_netmask_for_address(vip)
    IN [iface |-> IF iface = None THEN config["vip_iface"] ELSE iface,
        netmask |-> IF netmask = None THEN config["vip_cidr"] ELSE netmask,
        fallback |-> (iface = None) \/ (netmask = None)]

vip_monitoring ==
    <<"op", "monitor", KV("depth", "0"), KV("timeout", "20s"),
      KV("interval", "10s")>>

\* the parameter text of one VIP resource
VipResourceParams(vip_params, vip, iface, netmask, fallback) ==
    IF fallback
    THEN JoinSpace(<<"params", KV(vip_params, vip),
                     KV("cidr_netmask", netmask), KV("nic", iface)>>
                   \o vip_monitoring)
    ELSE JoinSpace(<<"params", KV(vip_params, vip)>> \o vip_monitoring)

\* the legacy name put on vips_to_delete for a VIP on iface
LegacyVipKey(svc, iface, vip_params, vips_to_delete) ==
    LET vip_key == "res_" \o svc \o "_" \o iface \o "_vip"
    IN IF InSeq(vip_key, vips_to_delete)
       THEN vip_key \o "_" \o vip_params
       ELSE vip_key

\* one iteration of the loop over the VIPs; st holds the payload and the
\* two local lists
VipIteration(svc, st, vip) ==
    LET res_vip == IF is_ipv6(vip) THEN "ocf:heartbeat:IPv6addr"
                   ELSE "ocf:heartbeat:IPaddr2"
        vip_params == IF is_ipv6(vip) THEN "ipv6addr" ELSE "ip"
        s == get_vip_settings(vip)
        vip_key == "res_" \o svc \o "_" \o Sha1Hex7(vip) \o "_vip"
    IN IF s.iface = None THEN st
       ELSE [rd |-> SetItem2(SetItem2(st.rd, "resources", vip_key, res_vip),
                             "resource_params", vip_key,
                             VipResourceParams(vip_params, vip, s.iface,
                                               s.netmask, s.fallback)),
             vip_group |-> Append(st.vip_group, vip_key),
             vips_to_delete |->
                 Append(st.vips_to_delete,
                        LegacyVipKey(svc, s.iface, vip_params,
                                     st.vips_to_delete))]

\* the states of the loop: before it, and after each iteration
RECURSIVE VipLoop(_, _, _)
VipLoop(svc, st, vips) ==
    IF vips = <<>> THEN <<st>>
    ELSE <<st>> \o VipLoop(svc, VipIteration(svc, st, Head(vips)), Tail(vips))

\* after the loop: delete_resources is extended in place, or created
VipDeleteResources(rd, vips_to_delete) ==
    IF vips_to_delete # <<>>
    THEN IF "delete_resources" \in DOMAIN rd
         THEN SetItem(rd, "delete_resources",
                      rd["delete_resources"] \o vips_to_delete)
         ELSE SetItem(rd, "delete_resources", vips_to_delete)
    ELSE rd

\* after the loop: the group is set in the groups dict, or groups is created
VipGroups(svc, rd, vip_group) ==
    IF Len(vip_group) >= 1
    THEN IF "groups" \in DOMAIN rd
         THEN SetItem2(rd, "groups", VIP_GROUP_NAME(svc),
                       JoinSpace(vip_group))
         ELSE SetItem(rd, "groups",
                      VIP_GROUP_NAME(svc) :> JoinSpace(vip_group))
    ELSE rd

\* update_hacluster_vip(service, relation_data): the payload it leaves, the
\* payload after each iteration, and which values are still the caller's
\* objects (every change is made in place)
update_hacluster_vip(svc, rd, alias) ==
    LET loop == VipLoop(svc, [rd |-> rd, vip_group |-> <<>>,
                              vips_to_delete |-> <<>>],
                        Split(get_hacluster_config.vip))
        last == loop[Len(loop)]
    IN [rd |-> VipGroups(svc, VipDeleteResources(last.rd, last.vips_to_delete),
                         last.vip_group),
        trace |-> [i \in 1..Len(loop) |-> loop[i].rd],
        alias |-> alias,
        raised |-> None,
        status |-> None,
        reads |-> <<>>]

----------------------------------------------------------------------------
(* assert_charm_supports_dns_ha and update_hacluster_dns_ha *)

\* a < b on Python strings: the first differing character decides, and a
\* proper prefix is smaller
RECURSIVE StrLess(_, _)
StrLess(a, b) ==
    IF b = <<>> THEN FALSE
    ELSE IF a = <<>> THEN TRUE
    ELSE IF Head(a) # Head(b) THEN Head(a) < Head(b)
    ELSE StrLess(Tail(a), Tail(b))

\* the characters of '16.04'
MinRelease == <<49, 54, 46, 48, 52>>

Blocked(msg) == [state |-> "blocked", message |-> msg]

NoStatus == [state |-> None, message |-> None]

\* assert_charm_supports_dns_ha(): TRUE when it returns, FALSE when it
\* reports 'blocked' and raises DNSHAException
assert_charm_supports_dns_ha == ~StrLess(lsb_release, MinRelease)

settings ==
    <<"os-admin-hostname", "os-internal-hostname", "os-public-hostname",
      "os-access-hostname">>

\* re.search('os-(.+?)-hostname', setting): group(1), or None for no match
ReSearchGroup1(setting) ==
    CASE setting = "os-admin-hostname" -> "admin"
      [] setting = "os-internal-hostname" -> "internal"
      [] setting = "os-public-hostname" -> "public"
      [] setting = "os-access-hostname" -> "access"
      [] OTHER -> None

DnsResourceParams(hostname, endpoint_type) ==
    JoinSpace(<<"params", KV("fqdn", hostname),
                KV("ip_address", resolve_address(endpoint_type))>>)

\* one iteration of the loop over the settings
DnsIteration(svc, st, setting, crm_ocf) ==
    LET hostname == config[setting]
        m == ReSearchGroup1(setting)
        endpoint_type == IF m = "internal" THEN "int" ELSE m
        hostname_key == "res_" \o svc \o "_" \o endpoint_type \o "_hostname"
        st1 == [rd |-> st.rd, hostname_group |-> st.hostname_group,
                reads |-> Append(st.reads, setting), raised |-> st.raised,
                status |-> st.status]
    IN IF st.raised # None THEN st
       ELSE IF hostname = None THEN st1
       ELSE IF m = None
       THEN [rd |-> st1.rd, hostname_group |-> st1.hostname_group,
             reads |-> st1.reads, raised |-> "DNSHAException",
             status |-> Blocked("Unexpected DNS hostname setting")]
       ELSE IF InSeq(hostname_key, st.hostname_group) THEN st1
       ELSE [rd |-> SetItem2(SetItem2(st.rd, "resources", hostname_key,
                                      crm_ocf),
                             "resource_params", hostname_key,
                             DnsResourceParams(hostname, endpoint_type)),
             hostname_group |-> Append(st.hostname_group, hostname_key),
             reads |-> st1.reads, raised |-> None, status |-> st.status]

\* the states of the loop: before it, and after each iteration
RECURSIVE DnsLoop(_, _, _, _)
DnsLoop(svc, st, todo, crm_ocf) ==
    IF todo = <<>> THEN <<st>>
    ELSE <<st>> \o DnsLoop(svc, DnsIteration(svc, st, Head(todo), crm_ocf),
                           Tail(todo), crm_ocf)

\* after the loop: groups is assigned a new dict, or the call raises
DnsGroups(svc, rd, hostname_group) ==
    SetItem(rd, "groups", DNSHA_GROUP_NAME(svc) :> JoinSpace(hostname_group))

\* update_hacluster_dns_ha(service, relation_data, crm_ocf)
update_hacluster_dns_ha(svc, rd, alias, crm_ocf) ==
    LET loop == DnsLoop(svc, [rd |-> rd, hostname_group |-> <<>>,
                              reads |-> <<>>, raised |-> None,
                              status |-> NoStatus],
                        settings, crm_ocf)
        last == loop[Len(loop)]
        trace == [i \in 1..Len(loop) |-> loop[i].rd]
    IN IF ~assert_charm_supports_dns_ha
       THEN [rd |-> rd, trace |-> <<rd>>, alias |-> alias,
             raised |-> "DNSHAException",
             status |-> Blocked("DNS HA is only supported on 16.04 and greater versions of Ubuntu."),
             reads |-> <<>>]
       ELSE IF last.raised # None
       THEN [rd |-> last.rd, trace |-> trace, alias |-> alias,
             raised |-> last.raised, status |-> last.status,
             reads |-> last.reads]
       ELSE IF Len(last.hostname_group) >= 1
       THEN [rd |-> DnsGroups(svc, last.rd, last.hostname_group),
             trace |-> trace, alias |-> alias \ {"groups"},
             raised |-> None, status |-> NoStatus, reads |-> last.reads]
       ELSE [rd |-> last.rd, trace |-> trace, alias |-> alias,
             raised |-> "DNSHAException",
             status |-> Blocked("DNS HA: Hostname group has no members."),
             reads |-> last.reads]

----------------------------------------------------------------------------
(* generate_ha_relation_data *)

\* InitialRelationData with the haproxy resource left without parameters
InitialRelationData_NoParams(svc, haproxy) ==
    LET _haproxy_res == "res_" \o svc \o "_haproxy"
    IN IF haproxy
       THEN [resources |-> _haproxy_res :> "lsb:haproxy",
             resource_params |-> EmptyDict,
             init_services |-> _haproxy_res :> "haproxy",
             clones |-> ("cl_" \o svc \o "_haproxy") :> _haproxy_res]
       ELSE [resources |-> EmptyDict, resource_params |-> EmptyDict]

\* _relation_data before extra_settings is merged
InitialRelationData(svc, haproxy) ==
    LET _haproxy_res == "res_" \o svc \o "_haproxy"
    IN IF haproxy
       THEN [resources |-> _haproxy_res :> "lsb:haproxy",
             resource_params |->
                 _haproxy_res :>
                     JoinSpace(<<"op", "monitor", KV("interval", "5s")>>),
             init_services |-> _haproxy_res :> "haproxy",
             clones |-> ("cl_" \o svc \o "_haproxy") :> _haproxy_res]
       ELSE [resources |-> EmptyDict, resource_params |-> EmptyDict]

\* the keys of extra under which _relation_data takes the caller's own
\* object: _relation_data.get(k) is empty or missing
AdoptedKeys(rd, extra) ==
    {k \in DOMAIN extra : ~(k \in DOMAIN rd /\ Truthy(rd[k]))}

\* the loop over extra_settings.items()
MergeExtraSettings(rd, extra) ==
    IF Truthy(extra)
    THEN [k \in DOMAIN rd \cup DOMAIN extra |->
            IF k \notin DOMAIN extra THEN rd[k]
            ELSE IF k \in AdoptedKeys(rd, extra) THEN extra[k]
            ELSE Update(rd[k], extra[k])]
    ELSE rd

\* EncodeRelationData without the filter on empty values
EncodeRelationData_KeepEmpty(rd) ==
    [jk \in {"json_" \o k : k \in DOMAIN rd} |->
        LET k == CHOOSE x \in DOMAIN rd : "json_" \o x = jk
        IN JsonDumps(k, rd[k])]

\* the returned dict: one json_<k> per key k with a non-empty value
EncodeRelationData(rd) ==
    LET kept == {k \in DOMAIN rd : Truthy(rd[k])}
    IN [jk \in {"json_" \o k : k \in kept} |->
          LET k == CHOOSE x \in kept : "json_" \o x = jk
          IN JsonDumps(k, rd[k])]

\* the body of generate_ha_relation_data up to the return
BuildRelationData(svc, haproxy, extra) ==
    LET rd0 == InitialRelationData(svc, haproxy)
        merged == MergeExtraSettings(rd0, extra)
        alias == IF Truthy(extra) THEN AdoptedKeys(rd0, extra) ELSE {}
    IN IF config["dns-ha"]
       THEN update_hacluster_dns_ha(svc, merged, alias, "ocf:maas:dns")
       ELSE update_hacluster_vip(svc, merged, alias)

NoResult == [kind |-> "none", value |-> EmptyDict]

generate_ha_relation_data ==
    /\ calls < MaxCalls
    /\ LET out == BuildRelationData(service, haproxy_enabled,
                                    extra_settings.obj)
           res == IF out.raised # None
                  THEN [kind |-> "raised", value |-> "exc" :> out.raised]
                  ELSE [kind |-> "returned",
                        value |-> EncodeRelationData(out.rd)]
       IN /\ result' = res
          /\ first_result' = IF calls = 0 THEN res ELSE first_result
          /\ relation_data' = out.rd
          /\ loop_trace' = out.trace
          /\ config_reads' = out.reads
          /\ status' = IF out.raised # None THEN out.status ELSE status
          /\ extra_before' = extra_settings
          /\ extra_settings' =
                [given |-> extra_settings.given,
                 obj |-> [k \in DOMAIN extra_settings.obj |->
                            IF k \in out.alias THEN out.rd[k]
                            ELSE extra_settings.obj[k]]]
    /\ calls' = calls + 1
    /\ UNCHANGED <<service, haproxy_enabled, config, ifaces, netmasks,
                   lsb_release, expect_result>>

----------------------------------------------------------------------------
(* expect_ha *)

PyBool(b) == [type |-> "bool", val |-> IF b THEN "True" ELSE "False"]

PyStr(text) == [type |-> "str", val |-> text]

PyTruthy(v) == IF v.type = "bool" THEN v.val = "True" ELSE Truthy(v.val)

\* a or b
PyOr(a, b) == IF PyTruthy(a) THEN a ELSE b

\* expected_related_units(reltype='ha') answers with units or raises
Lookups ==
    {[raises |-> e, units |-> <<>>] : e \in {"NotImplementedError", "KeyError"}}
    \cup {[raises |-> None, units |-> [i \in 1..n |-> "hacluster"]] :
              n \in 0..MaxUnits}

expect_ha(lookup) ==
    LET ha_related_units ==
            IF lookup.raises \in {"NotImplementedError", "KeyError"}
            THEN <<>> ELSE lookup.units
    IN PyOr(PyOr(PyBool(Len(ha_related_units) > 0), PyStr(config["vip"])),
            PyBool(config["dns-ha"]))

ExpectHa ==
    /\ \E lookup \in Lookups :
          expect_result' = [called |-> TRUE, lookup |-> lookup,
                            value |-> expect_ha(lookup)]
    /\ UNCHANGED <<service, haproxy_enabled, extra_settings, config, ifaces,
                   netmasks, lsb_release, calls, result, first_result,
                   relation_data, loop_trace, config_reads, status,
                   extra_before>>

----------------------------------------------------------------------------
(* Initial states: the caller's arguments, the configuration and the *)
(* collaborators' answers, which no action changes                   *)

\* the caller's extra_settings of the docstring of generate_ha_relation_data
ExtraConsole ==
    [colocations |->
         "vip_consoleauth" :>
             JoinSpace(<<"inf:", "res_nova_consoleauth", "grp_nova_vips">>),
     init_services |-> "res_nova_consoleauth" :> "nova-consoleauth",
     resources |-> "res_nova_consoleauth" :> "ocf:openstack:nova-consoleauth",
     resource_params |->
         "res_nova_consoleauth" :>
             JoinSpace(<<"op", "monitor", KV("interval", "5s")>>)]

ExtraDelete == [delete_resources |-> <<"res_nova_eth0_vip">>]

ExtraGroups ==
    [groups |-> ("grp_nova_extra" :> <<"res_nova_consoleauth">>)
                @@ ("grp_nova_vips" :> <<"res_nova_consoleauth">>)]

ExtraResourcesOnly ==
    [resources |-> "res_nova_consoleauth" :> "ocf:openstack:nova-consoleauth"]

ExtraEmpty == [delete_resources |-> <<>>, groups |-> EmptyDict]

ExtraAll == ExtraConsole @@ ExtraDelete @@ ExtraGroups

\* the calls made: the service, haproxy_enabled and the caller's object
Callers ==
    {[service |-> "nova", haproxy_enabled |-> h, given |-> TRUE, obj |-> e] :
        h \in BOOLEAN,
        e \in {ExtraConsole, ExtraDelete, ExtraGroups, ExtraResourcesOnly,
               ExtraEmpty, ExtraAll}}
    \cup {[service |-> s, haproxy_enabled |-> h, given |-> FALSE,
           obj |-> EmptyDict] : s \in Services, h \in BOOLEAN}
    \cup {[service |-> "glance", haproxy_enabled |-> FALSE, given |-> TRUE,
           obj |-> ExtraAll]}

\* The IPv4 addresses, which discovery does not tell apart: a list names
\* them in this order of first appearance.
V4Order == <<"10.0.0.1", "10.0.0.2", "10.0.0.3">>

InOrderOfAppearance(vips) ==
    \A j \in 2..Len(V4Order) :
        \A p \in 1..Len(vips) :
            vips[p] = V4Order[j] =>
                \E q \in 1..(p - 1) : vips[q] = V4Order[j - 1]

\* the lists of at most MaxVips VIPs, repeats included
VipLists ==
    {vips \in UNION {[1..n -> VIPs] : n \in 0..MaxVips} :
        InOrderOfAppearance(vips)}

\* Ubuntu releases, as <<year, month>>
Versions ==
    {<<8, 4>>, <<9, 10>>, <<12, 4>>, <<14, 4>>, <<15, 10>>, <<16, 4>>,
     <<16, 10>>, <<18, 4>>, <<22, 4>>}

\* the release identifier of a version: year, '.', two digits of month
FormatRelease(v) ==
    (IF v[1] < 10 THEN <<48 + v[1]>>
     ELSE <<48 + (v[1] \div 10), 48 + (v[1] % 10)>>)
    \o <<46, 48 + (v[2] \div 10), 48 + (v[2] % 10)>>

Hostnames == {None, "api.maas"}

MakeConfig(vips, dns_ha, vip_iface, vip_cidr, admin, internal, public, access) ==
    ("vip" :> JoinSpace(vips)) @@ ("dns-ha" :> dns_ha)
    @@ ("vip_iface" :> vip_iface) @@ ("vip_cidr" :> vip_cidr)
    @@ ("os-admin-hostname" :> admin) @@ ("os-internal-hostname" :> internal)
    @@ ("os-public-hostname" :> public) @@ ("os-access-hostname" :> access)

\* the addresses of one family are on one network: discovery answers alike
Discovery(v4, v6) == [vip \in VIPs |-> IF is_ipv6(vip) THEN v6 ELSE v4]

InitVip ==
    /\ \E vips \in VipLists, fb \in {<<None, None>>, <<"eth1", "24">>} :
          config = MakeConfig(vips, FALSE, fb[1], fb[2],
                              None, None, None, None)
    /\ \E i4 \in {None, "eth0"}, m4 \in {None, "255.255.255.0"},
          d6 \in {<<None, None>>, <<"eth0", "64">>} :
          /\ ifaces = Discovery(i4, d6[1])
          /\ netmasks = Discovery(m4, d6[2])
    /\ lsb_release = FormatRelease(<<16, 4>>)

InitDns ==
    /\ \E admin \in Hostnames, internal \in Hostnames,
          public \in Hostnames, access \in Hostnames :
          config = MakeConfig(<<>>, TRUE, None, None,
                              admin, internal, public, access)
    /\ ifaces = Discovery("eth0", "eth0")
    /\ netmasks = Discovery("255.255.255.0", "64")
    /\ lsb_release \in {FormatRelease(v) : v \in Versions}

NoExpect ==
    [called |-> FALSE, lookup |-> [raises |-> None, units |-> <<>>],
     value |-> PyBool(FALSE)]

InitResults ==
    /\ calls = 0
    /\ result = NoResult
    /\ first_result = NoResult
    /\ relation_data = EmptyDict
    /\ loop_trace = <<>>
    /\ config_reads = <<>>
    /\ status = NoStatus
    /\ extra_before = extra_settings
    /\ expect_result = NoExpect

Init ==
    /\ \E c \in Callers :
          /\ service = c.service
          /\ haproxy_enabled = c.haproxy_enabled
          /\ extra_settings = [given |-> c.given, obj |-> c.obj]
    /\ InitVip \/ InitDns
    /\ InitResults

Next == generate_ha_relation_data

Spec == Init /\ [][Next]_vars

\* expect_ha reads the configuration only: its inputs are the vip and
\* dns-ha settings and the answer of the related-units lookup
InitExpectHa ==
    /\ service = "nova"
    /\ haproxy_enabled = TRUE
    /\ extra_settings = [given |-> FALSE, obj |-> EmptyDict]
    /\ \E vips \in VipLists, dns_ha \in BOOLEAN :
          config = MakeConfig(vips, dns_ha, None, None,
                              None, None, None, None)
    /\ ifaces = Discovery("eth0", "eth0")
    /\ netmasks = Discovery("255.255.255.0", "64")
    /\ lsb_release = FormatRelease(<<16, 4>>)
    /\ InitResults

SpecExpectHa == InitExpectHa /\ [][ExpectHa]_vars

----------------------------------------------------------------------------
(* Vocabulary of the properties *)

Range(s) == {s[i] : i \in DOMAIN s}

NoDuplicates(s) == \A i, j \in DOMAIN s : s[i] = s[j] => i = j

\* the last call ran update_hacluster_vip
VipCallDone == calls > 0 /\ ~config["dns-ha"]

\* the last call ran update_hacluster_dns_ha
DnsCallDone == calls > 0 /\ config["dns-ha"]

Returned == result.kind = "returned"

ConfiguredVips == Split(config["vip"])

CurrentVipKey(vip) == "res_" \o service \o "_" \o Sha1Hex7(vip) \o "_vip"

\* the text holds a word key="..."
Contains(text, key) ==
    \E i \in DOMAIN text :
        \E v \in Ifaces \cup Netmasks \cup {None} : text[i] = KV(key, v)

\* the number a run of digit characters denotes
RECURSIVE DigitsValue(_)
DigitsValue(ds) ==
    IF ds = <<>> THEN 0
    ELSE 10 * DigitsValue(SubSeq(ds, 1, Len(ds) - 1)) + (ds[Len(ds)] - 48)

\* the version <<year, month>> a release identifier denotes
ReleaseVersion(r) ==
    LET dot == CHOOSE i \in 1..Len(r) : r[i] = 46
    IN <<DigitsValue(SubSeq(r, 1, dot - 1)),
         DigitsValue(SubSeq(r, dot + 1, Len(r)))>>

VersionLess(a, b) == a[1] < b[1] \/ (a[1] = b[1] /\ a[2] < b[2])

ResourcesHaveParams(rd) ==
    DOMAIN rd["resources"] \subseteq DOMAIN rd["resource_params"]

\* extra_settings is absent, or supplies parameters for each resource it
\* supplies
ExtraSuppliesParams(extra) ==
    \/ ~extra.given
    \/ "resources" \notin DOMAIN extra.obj
    \/ /\ "resource_params" \in DOMAIN extra.obj
       /\ DOMAIN extra.obj["resources"]
              \subseteq DOMAIN extra.obj["resource_params"]

BuilderGroupName ==
    IF config["dns-ha"] THEN DNSHA_GROUP_NAME(service)
    ELSE VIP_GROUP_NAME(service)

----------------------------------------------------------------------------
(* The claims *)

\* C1: after update_hacluster_vip returns for a configured list of at least
\* one VIP, groups holds grp_<service>_vips and that group has as many
\* members as the list has distinct VIPs.
C1_GroupHasOneMemberPerDistinctVip ==
    (VipCallDone /\ Len(ConfiguredVips) >= 1) =>
        /\ "groups" \in DOMAIN relation_data
        /\ VIP_GROUP_NAME(service) \in DOMAIN relation_data["groups"]
        /\ Len(Split(relation_data["groups"][VIP_GROUP_NAME(service)]))
               = Cardinality(Range(ConfiguredVips))

\* C2: every later call of generate_ha_relation_data with the same
\* arguments, the same extra_settings object and the same configuration
\* returns exactly what the first call returned.
C2_LaterCallsReturnWhatTheFirstDid ==
    calls >= 2 =>
        /\ result.kind = first_result.kind
        /\ result.value = first_result.value

\* C3: on a release that denotes a version earlier than 16.04
\* update_hacluster_dns_ha raises DNSHAException before it reads a hostname
\* setting and leaves the payload as it was; on 16.04 or later the builder
\* goes on to read the settings.
C3_RaisesExactlyBelow1604 ==
    DnsCallDone =>
        IF VersionLess(ReleaseVersion(lsb_release), <<16, 4>>)
        THEN /\ result.kind = "raised"
             /\ config_reads = <<>>
             /\ loop_trace = <<relation_data>>
        ELSE config_reads = settings

C5_EveryResourceHasParams ==
    (calls > 0 /\ ExtraSuppliesParams(extra_before)) =>
        /\ \A i \in DOMAIN loop_trace : ResourcesHaveParams(loop_trace[i])
        /\ Returned => ResourcesHaveParams(relation_data)

\* C5 witness: a call with extra_settings that supplies resources went
\* through two iterations that each added a resource, and returned.
C5_Witness ==
    /\ calls > 0
    /\ Returned
    /\ extra_before.given
    /\ "resources" \in DOMAIN extra_before.obj
    /\ ExtraSuppliesParams(extra_before)
    /\ Len(loop_trace) >= 3
    /\ DOMAIN loop_trace[1]["resources"] # DOMAIN loop_trace[2]["resources"]
    /\ DOMAIN loop_trace[2]["resources"] # DOMAIN loop_trace[3]["resources"]

\* C6: the returned mapping has exactly the keys json_<k> of the payload
\* keys k with a non-empty value, none of its values encodes an empty value,
\* and with no VIP, no haproxy, no DNS HA and no extra settings it has
\* neither json_resources nor json_resource_params.
C6_NoEmptyValueIsReturned ==
    Returned =>
        /\ DOMAIN result.value =
               {"json_" \o k :
                    k \in {x \in DOMAIN relation_data :
                               DOMAIN relation_data[x] # {}}}
        /\ \A jk \in DOMAIN result.value : Len(result.value[jk].items) > 0
        /\ (/\ ConfiguredVips = <<>>
            /\ ~haproxy_enabled
            /\ ~config["dns-ha"]
            /\ ~extra_before.given)
           => /\ "json_resources" \notin DOMAIN result.value
              /\ "json_resource_params" \notin DOMAIN result.value

\* C6 witness: a call with no VIP, no haproxy, no DNS HA and no extra
\* settings returned, its payload holding the two empty dicts.
C6_Witness ==
    /\ calls > 0
    /\ Returned
    /\ ConfiguredVips = <<>>
    /\ ~haproxy_enabled
    /\ ~config["dns-ha"]
    /\ ~extra_before.given
    /\ {"resources", "resource_params"} \subseteq DOMAIN relation_data
    /\ DOMAIN result.value = {}

\* C7: expect_ha returns the boolean True when a related unit exists or vip
\* or dns-ha is set, the boolean False otherwise, a failed lookup counting
\* as no unit.
C7_ExpectHaReturnsTheBoolean ==
    expect_result.called =>
        LET units == IF expect_result.lookup.raises # None THEN 0
                     ELSE Len(expect_result.lookup.units)
            expected == units > 0 \/ config["vip"] # <<>> \/ config["dns-ha"]
        IN /\ expect_result.value.type = "bool"
           /\ (expect_result.value.val = "True") = expected

\* C8: after update_hacluster_vip returns no name appears more than once in
\* delete_resources.
C8_DeleteResourcesHasNoDuplicate ==
    (VipCallDone /\ "delete_resources" \in DOMAIN relation_data) =>
        NoDuplicates(relation_data["delete_resources"])

\* C9: generate_ha_relation_data leaves the caller's extra_settings with the
\* contents it had before the call.
C9_ExtraSettingsUnchanged ==
    calls > 0 => extra_settings = extra_before

\* C10: every group the caller supplied under a name other than the
\* builder's group name is in the returned json_groups with its value.
C10_CallerGroupsAreKept ==
    (Returned /\ extra_before.given /\ "groups" \in DOMAIN extra_before.obj) =>
        \A g \in DOMAIN extra_before.obj["groups"] :
            g # BuilderGroupName =>
                /\ "json_groups" \in DOMAIN result.value
                /\ InSeq(<<g, extra_before.obj["groups"][g]>>,
                         result.value["json_groups"].items)

====
